---- MODULE Spec2Model ----
(***************************************************************************)
(* Model of content-blitz: the search aggregator                           *)
(* (backend/FreeSearchAggregator.py) and the five-node LangGraph pipeline  *)
(* (backend/graph.py).                                                     *)
(***************************************************************************)
EXTENDS Integers, Sequences, FiniteSets, TLC

\* ------------------------------------------------------------------ bounds
\* Largest number of hits one provider client returns in the model.
MaxHits == 2
\* Longest explicit `sources` list passed to aggregate_search in the model.
MaxSources == 2
\* Most requests the HTTP server answers in the model.
MaxRequests == 3
\* Largest number of hits, and longest sources list, of the runs of
\* aggregate_search that carry snippets.
MaxSnippetHits == 2
MaxSnippetSources == 1

\* --------------------------------------------------------- aggregator data
Providers == {"duckduckgo", "brave", "wikipedia", "reddit", "arxiv", "github"}

\* The six if-blocks with the reddit block moved ahead of the others.
CallOrderRedditFirst ==
    <<"reddit", "duckduckgo", "brave", "wikipedia", "arxiv", "github">>

\* The order of the six `if "<p>" in sources` blocks of aggregate_search.
CallOrder == <<"duckduckgo", "brave", "wikipedia", "reddit", "arxiv", "github">>

\* `if sources is None: sources = [...]`
DefaultSources == <<"duckduckgo", "wikipedia", "reddit">>

\* Locators a provider may hand back in its url/href/html_url/id field; ""
\* is also what result.get(<field>, "") yields for a hit without the field.
Locators == {"", "https://reddit.com/r/x"}

\* Reddit hands back a permalink, not a url.
Permalinks == {"", "/r/x"}

RawHits(p) == IF p = "reddit" THEN Permalinks ELSE Locators

SeqsUpTo(S, n) == UNION {[1..k -> S] : k \in 0..n}

\* What one provider client does when called: it raises, it answers with a
\* payload the parsing code chokes on, or it answers with a list of hits.
Outcomes(p) ==
    {[kind |-> "raise", hits |-> <<>>], [kind |-> "malformed", hits |-> <<>>]}
    \cup {[kind |-> "ok", hits |-> h] : h \in SeqsUpTo(RawHits(p), MaxHits)}

NotCalled == [kind |-> "notcalled", hits |-> <<>>]

\* ----------------------------------------------------------- normalization
\* _normalize_duckduckgo / _normalize_brave: url from the hit's field,
\* rank = position + 1 (enumerate is 0-based, TLA+ sequences are 1-based).
NormalizeRanked(p, hits) ==
    [i \in 1..Len(hits) |-> [url |-> hits[i], source |-> p, rank |-> i]]

\* search_wikipedia / search_arxiv / search_github build the record in place,
\* with no rank field (rank 0 here).
NormalizePlain(p, hits) ==
    [i \in 1..Len(hits) |-> [url |-> hits[i], source |-> p, rank |-> 0]]

\* search_reddit derives the url: f"https://reddit.com{permalink}".
NormalizeReddit(hits) ==
    [i \in 1..Len(hits) |->
        [url |-> "https://reddit.com" \o hits[i], source |-> "reddit", rank |-> 0]]

Normalize(p, hits) ==
    CASE p \in {"duckduckgo", "brave"} -> NormalizeRanked(p, hits)
      [] p = "reddit" -> NormalizeReddit(hits)
      [] OTHER -> NormalizePlain(p, hits)

\* The body of search_<p> inside its try block. exc = an exception left the
\* body. search_brave reads os.getenv, and the module never imports os, so its
\* body always ends in a NameError.
SearchBody(p, o) ==
    IF p = "brave" \/ o.kind # "ok"
    THEN [exc |-> TRUE, val |-> <<>>]
    ELSE [exc |-> FALSE, val |-> Normalize(p, o.hits)]

\* A search_<p> whose except clause lets the exception through.
ExceptReraise(r) == r

\* `except Exception as e: print(...); return []`
ExceptReturnEmpty(r) == IF r.exc THEN [exc |-> FALSE, val |-> <<>>] ELSE r

\* search_duckduckgo .. search_github
SearchProvider(p, o) == ExceptReturnEmpty(SearchBody(p, o))

\* `"<p>" in sources`
InSources(p, srcs) == \E i \in 1..Len(srcs) : srcs[i] = p

\* The loop of lines 181-187, as the code runs it: a record is kept when its
\* url is truthy and not yet in seen_urls.
RECURSIVE DedupFrom(_, _, _, _)
DedupFrom(all, i, seen, acc) ==
    IF i > Len(all) THEN acc
    ELSE LET url == all[i].url IN
         IF url # "" /\ url \notin seen
         THEN DedupFrom(all, i + 1, seen \cup {url}, Append(acc, all[i]))
         ELSE DedupFrom(all, i + 1, seen, acc)

\* A dedup that lets a later record with the same url replace the kept one.
RECURSIVE DedupKeepLastFrom(_, _)
DedupKeepLastFrom(all, i) ==
    IF i > Len(all) THEN <<>>
    ELSE LET url == all[i].url IN
         IF url # "" /\ ~ \E j \in (i + 1)..Len(all) : all[j].url = url
         THEN <<all[i]>> \o DedupKeepLastFrom(all, i + 1)
         ELSE DedupKeepLastFrom(all, i + 1)

DedupKeepLast(all) == DedupKeepLastFrom(all, 1)

\* A dedup that hands the survivors back in reverse order.
DedupReversed(all) ==
    LET kept == DedupFrom(all, 1, {}, <<>>)
    IN [i \in 1..Len(kept) |-> kept[Len(kept) + 1 - i]]

RemoveDuplicates(all) == DedupFrom(all, 1, {}, <<>>)

\* ------------------------------------------------------- aggregator state
VARIABLES
    sources,         \* the `sources` argument: [isNone, list]
    agg_pc,          \* "start", "call", "dedup", "done" or "raised"
    agg_i,           \* which of the six if-blocks is next (index in CallOrder)
    eff_sources,     \* the local `sources` after the None default
    all_results,     \* the local all_results
    unique_results,  \* the returned list
    responses,       \* what each provider client did when it was called
    returned         \* what each search_<p> returned to aggregate_search

vars_agg == <<sources, agg_pc, agg_i, eff_sources, all_results, unique_results,
              responses, returned>>

\* ---------------------------------------------------------- pipeline state
VARIABLES
    state,               \* the AgentState channels that hold a value
    node_pc,             \* per node: "idle", "started", "prompted", "returned",
                         \* "completed" or "failed"
    writes,              \* per node: the dict it returned, until it is merged
    active,              \* the nodes of the current step of the compiled graph
    run,                 \* app.invoke: "running", "done" or "raised"
    llm_calls,           \* per node: llm.invoke calls made
    img_calls,           \* client.images.generate calls made
    openai_key,          \* whether OPENAI_API_KEY is set
    image_prompt,        \* the local image_prompt of image_gen_node
    img_outcome,         \* how the try block of image_gen_node ended
    contributed          \* per node: log entries it appended or returned

vars_graph == <<state, node_pc, writes, active, run, llm_calls, img_calls,
                openai_key, image_prompt, img_outcome, contributed>>

\* ------------------------------------------------------ HTTP handler state
VARIABLES
    http_pc,         \* the handler: "idle", "received", "except" or "responded"
    http_path,       \* the route of the request being handled
    http_query,      \* request.query
    http_status,     \* the status code of the response (0: none yet)
    http_detail,     \* the detail of the HTTPException, when one is raised
    graph_invoked,   \* whether the handler got as far as the graph
    served           \* the requests answered so far: [path, query, status]

vars_http == <<http_pc, http_path, http_query, http_status, http_detail,
               graph_invoked, served>>

vars == <<vars_agg, vars_graph, vars_http>>

\* The server with no request in flight and none answered.
HttpParked ==
    /\ http_pc = "idle"
    /\ http_path = ""
    /\ http_query = ""
    /\ http_status = 0
    /\ http_detail = ""
    /\ graph_invoked = FALSE
    /\ served = <<>>

\* The pipeline before app.invoke is called with request q: the input holds
\* the request, the two reducer channels start as empty lists.
GraphStart(q, key) ==
    /\ state = [request |-> q, logs |-> <<>>, node_details |-> <<>>]
    /\ node_pc = [n \in {"researcher", "strategist", "seo_writer",
                          "linkedin_writer", "designer"} |-> "idle"]
    /\ writes = [n \in {"researcher", "strategist", "seo_writer",
                         "linkedin_writer", "designer"} |-> <<>>]
    /\ active = {"researcher"}
    /\ run = "running"
    /\ llm_calls = [n \in {"researcher", "strategist", "seo_writer",
                            "linkedin_writer", "designer"} |-> 0]
    /\ img_calls = 0
    /\ openai_key = key
    /\ image_prompt = ""
    /\ img_outcome = "none"
    /\ contributed = [n \in {"researcher", "strategist", "seo_writer",
                              "linkedin_writer", "designer"} |-> 0]

SourceArgs ==
    {[isNone |-> TRUE, list |-> <<>>]}
    \cup {[isNone |-> FALSE, list |-> l] : l \in SeqsUpTo(Providers, MaxSources)}

InitAgg ==
    /\ sources \in SourceArgs
    /\ agg_pc = "start"
    /\ agg_i = 1
    /\ eff_sources = <<>>
    /\ all_results = <<>>
    /\ unique_results = <<>>
    /\ responses = [p \in Providers |-> NotCalled]
    /\ returned = [p \in Providers |-> <<>>]
    /\ GraphStart("", FALSE)
    /\ HttpParked

\* Lines 157-160: default the sources, start with an empty all_results.
AggEnter ==
    /\ agg_pc = "start"
    /\ eff_sources' = IF sources.isNone THEN DefaultSources ELSE sources.list
    /\ all_results' = <<>>
    /\ agg_pc' = "call"
    /\ UNCHANGED <<sources, agg_i, unique_results, responses, returned>>
    /\ UNCHANGED vars_graph
    /\ UNCHANGED vars_http

\* Lines 162-178: one `if "<p>" in sources: all_results.extend(search_<p>(query))`
\* block whose test is true. An exception leaving search_<p> would leave
\* aggregate_search too (it has no try of its own).
AggCallProvider ==
    /\ agg_pc = "call"
    /\ agg_i <= Len(CallOrder)
    /\ InSources(CallOrder[agg_i], eff_sources)
    /\ \E o \in Outcomes(CallOrder[agg_i]) :
          LET p == CallOrder[agg_i]
              r == SearchProvider(p, o)
          IN /\ responses' = [responses EXCEPT ![p] = o]
             /\ IF r.exc
                THEN /\ agg_pc' = "raised"
                     /\ UNCHANGED <<all_results, returned, agg_i>>
                ELSE /\ all_results' = all_results \o r.val
                     /\ returned' = [returned EXCEPT ![p] = r.val]
                     /\ agg_i' = agg_i + 1
                     /\ agg_pc' = IF agg_i = Len(CallOrder) THEN "dedup" ELSE "call"
    /\ UNCHANGED <<sources, eff_sources, unique_results>>
    /\ UNCHANGED vars_graph
    /\ UNCHANGED vars_http

\* Lines 162-178: a block whose test is false.
AggSkipProvider ==
    /\ agg_pc = "call"
    /\ agg_i <= Len(CallOrder)
    /\ ~ InSources(CallOrder[agg_i], eff_sources)
    /\ agg_i' = agg_i + 1
    /\ agg_pc' = IF agg_i = Len(CallOrder) THEN "dedup" ELSE "call"
    /\ UNCHANGED <<sources, eff_sources, all_results, unique_results, responses,
                   returned>>
    /\ UNCHANGED vars_graph
    /\ UNCHANGED vars_http

\* Lines 180-189: remove duplicates by url and return.
AggDedup ==
    /\ agg_pc = "dedup"
    /\ unique_results' = RemoveDuplicates(all_results)
    /\ agg_pc' = "done"
    /\ UNCHANGED <<sources, agg_i, eff_sources, all_results, responses, returned>>
    /\ UNCHANGED vars_graph
    /\ UNCHANGED vars_http

NextAgg == AggEnter \/ AggCallProvider \/ AggSkipProvider \/ AggDedup

SpecAgg == InitAgg /\ [][NextAgg]_vars

\* ------------------------------------------------ aggregator: the claims
Requested(p) == InSources(p, eff_sources)

\* The client of p was called and an exception left the body of search_<p>.
ProviderFailed(p) ==
    responses[p].kind # "notcalled" /\ SearchBody(p, responses[p]).exc

RECURSIVE ConcatReturned(_, _)
ConcatReturned(order, i) ==
    IF i > Len(order) THEN <<>>
    ELSE returned[order[i]] \o ConcatReturned(order, i + 1)

\* The provider order the claims call canonical, written out.
CanonicalOrder ==
    <<"duckduckgo", "brave", "wikipedia", "reddit", "arxiv", "github">>

IndicesWithUrl(seq, u) == {k \in 1..Len(seq) : seq[k].url = u}

FirstIndexWithUrl(seq, u) ==
    CHOOSE k \in IndicesWithUrl(seq, u) : \A m \in IndicesWithUrl(seq, u) : k <= m

\* C1: when two records of the concatenated provider results share a
\* non-empty url, the list aggregate_search returns holds exactly one record
\* with that url, and it is the first one of the concatenation.
C1_FirstOccurrenceKept ==
    agg_pc = "done" =>
        \A i, j \in 1..Len(all_results) :
            (i < j /\ all_results[i].url # ""
                   /\ all_results[i].url = all_results[j].url) =>
                LET u == all_results[i].url
                    kept == IndicesWithUrl(unique_results, u)
                IN /\ Cardinality(kept) = 1
                   /\ \A k \in kept :
                         unique_results[k] = all_results[FirstIndexWithUrl(all_results, u)]

\* Two different records (different provider or rank) share a non-empty url
\* and the call has returned.
C1_Witness ==
    /\ agg_pc = "done"
    /\ \E i, j \in 1..Len(all_results) :
          /\ i < j
          /\ all_results[i].url # ""
          /\ all_results[i].url = all_results[j].url
          /\ all_results[i] # all_results[j]

NoDuplicateLocators ==
    \A i, j \in 1..Len(all_results) :
        i # j => all_results[i].url # all_results[j].url

\* C2: when the provider result lists hold no duplicate locators,
\* aggregate_search returns exactly their concatenation in canonical provider
\* order, with the same length (no record dropped).
C2_NoDuplicatesConcatenation ==
    (agg_pc = "done" /\ NoDuplicateLocators) =>
        /\ unique_results = ConcatReturned(CanonicalOrder, 1)
        /\ Len(unique_results) = Len(all_results)

EmptyUrlCount(seq) == Cardinality(IndicesWithUrl(seq, ""))

\* C9: every record with an empty url in the concatenated provider results
\* is kept in the output of aggregate_search (empty-url records are never
\* duplicates of each other and stay outside the dedup key space).
C9_EmptyUrlRecordsKept ==
    agg_pc = "done" => EmptyUrlCount(unique_results) = EmptyUrlCount(all_results)

\* The explicit sources list with repeated names dropped (first mention kept).
RECURSIVE FirstMentions(_, _)
FirstMentions(l, i) ==
    IF i > Len(l) THEN <<>>
    ELSE IF \E j \in 1..(i - 1) : l[j] = l[i]
         THEN FirstMentions(l, i + 1)
         ELSE <<l[i]>> \o FirstMentions(l, i + 1)

MaxResearchHits == 1

Nodes == {"researcher", "strategist", "seo_writer", "linkedin_writer", "designer"}

TerminalNodes == {"seo_writer", "linkedin_writer", "designer"}

\* Nodes that call llm.invoke.
LlmNodes == Nodes \ {"researcher"}

\* workflow.set_entry_point
EntryPoint == "researcher"

\* The workflow.add_edge calls with designer hung off researcher.
EdgesDesignerEarly ==
    {<<"researcher", "strategist">>, <<"researcher", "designer">>,
     <<"strategist", "seo_writer">>, <<"strategist", "linkedin_writer">>,
     <<"seo_writer", "END">>, <<"linkedin_writer", "END">>, <<"designer", "END">>}

\* The workflow.add_edge calls with seo_writer hung off researcher.
EdgesSeoEarly ==
    {<<"researcher", "strategist">>, <<"researcher", "seo_writer">>,
     <<"strategist", "linkedin_writer">>, <<"strategist", "designer">>,
     <<"seo_writer", "END">>, <<"linkedin_writer", "END">>, <<"designer", "END">>}

\* The workflow.add_edge calls with designer led back to researcher.
EdgesWithCycle ==
    {<<"researcher", "strategist">>,
     <<"strategist", "seo_writer">>, <<"strategist", "linkedin_writer">>,
     <<"strategist", "designer">>,
     <<"seo_writer", "END">>, <<"linkedin_writer", "END">>,
     <<"designer", "researcher">>}

\* The workflow.add_edge calls.
Edges ==
    {<<"researcher", "strategist">>,
     <<"strategist", "seo_writer">>, <<"strategist", "linkedin_writer">>,
     <<"strategist", "designer">>,
     <<"seo_writer", "END">>, <<"linkedin_writer", "END">>, <<"designer", "END">>}

\* The nodes the compiled graph schedules after the nodes in S have written.
Successors(S) == {n \in Nodes : \E m \in S : <<m, n>> \in Edges}

\* The keys of AgentState that carry a reducer (Annotated[..., operator.add]).
ReducerKeys == {"logs", "node_details"}

\* A reducer that keeps only what the node returned.
ReducerReplace(old, new) == new

\* operator.add on two lists.
Reducer(old, new) == old \o new

\* One node's partial update merged into the state: a reducer key goes
\* through operator.add, any other key is replaced.
ApplyWrite(st, w) ==
    [k \in (DOMAIN st) \cup (DOMAIN w) |->
        IF k \notin DOMAIN w THEN st[k]
        ELSE IF k \in ReducerKeys /\ k \in DOMAIN st THEN Reducer(st[k], w[k])
        ELSE w[k]]

RECURSIVE ApplyWrites(_, _, _)
ApplyWrites(st, ws, i) ==
    IF i > Len(ws) THEN st ELSE ApplyWrites(ApplyWrite(st, ws[i]), ws, i + 1)

\* aggregate_search as research_node calls it: the six blocks in order, then
\* the dedup. resp gives what each provider client does.
RECURSIVE ExtendFrom(_, _, _)
ExtendFrom(srcs, resp, i) ==
    IF i > Len(CallOrder) THEN [exc |-> FALSE, val |-> <<>>]
    ELSE LET p == CallOrder[i]
             rest == ExtendFrom(srcs, resp, i + 1)
         IN IF ~ InSources(p, srcs) THEN rest
            ELSE LET r == SearchProvider(p, resp[p])
                 IN IF r.exc \/ rest.exc THEN [exc |-> TRUE, val |-> <<>>]
                    ELSE [exc |-> FALSE, val |-> r.val \o rest.val]

aggregate_search(srcs, resp) ==
    LET all == ExtendFrom(srcs, resp, 1)
    IN IF all.exc THEN all ELSE [exc |-> FALSE, val |-> RemoveDuplicates(all.val)]

\* research_node's `sources=["duckduckgo", "wikipedia", "reddit"]`
ResearchSources == <<"duckduckgo", "wikipedia", "reddit">>

ResearchOutcomes(p) ==
    {[kind |-> "raise", hits |-> <<>>]}
    \cup {[kind |-> "ok", hits |-> h] : h \in SeqsUpTo(RawHits(p), MaxResearchHits)}

ResearchResponses ==
    {[p \in Providers |-> IF p = "duckduckgo" THEN d
                          ELSE IF p = "wikipedia" THEN w
                          ELSE IF p = "reddit" THEN r
                          ELSE NotCalled] :
        d \in ResearchOutcomes("duckduckgo"),
        w \in ResearchOutcomes("wikipedia"),
        r \in ResearchOutcomes("reddit")}

\* The requests of the model; main.py hands over whatever string it is sent.
Requests == {"", "ai trends"}

\* response.content of llm.invoke, one text per prompt.
Content(n) ==
    CASE n = "strategist" -> "plan text"
      [] n = "seo_writer" -> "blog text"
      [] n = "linkedin_writer" -> "linkedin text"
      [] n = "designer" -> "image description"

\* image_response.data[0].url
GeneratedImageUrl == "https://images.example/generated.png"

PlaceholderUrl == "https://placehold.co/600x400?text=Image+Generation+Failed"

\* str(e) of what the try block of image_gen_node can raise.
KeyMissingReason == "OPENAI_API_KEY not found"
ApiErrorReason == "image api error"

NodeLabel(n) ==
    CASE n = "researcher" -> "Deep Research Agent"
      [] n = "strategist" -> "Content Strategist Agent"
      [] n = "seo_writer" -> "SEO Blog Writer Agent"
      [] n = "linkedin_writer" -> "LinkedIn Writer Agent"
      [] n = "designer" -> "Image Generation Agent"

\* The entry each node appends to state['logs'] in place when it starts.
StartLog(n, q) ==
    CASE n = "researcher" -> "Researcher: Searching for '" \o q \o "'..."
      [] n = "strategist" -> "Strategist: Analyzing research and creating content plan..."
      [] n = "seo_writer" -> "SEO Writer: Drafting blog post..."
      [] n = "linkedin_writer" -> "LinkedIn Writer: Drafting social post..."
      [] n = "designer" -> "Designer: Creating visual concepts..."

PromptLog(description) == "Image prompt: '" \o description \o "'"

\* The dict each node returns.
ResearchUpdate(q, raw_results) ==
    [research_data |-> raw_results,
     logs |-> <<"Researcher: Found data on '" \o q \o "'.">>,
     node_details |-> <<[node |-> NodeLabel("researcher")]>>]

StrategistUpdate(content) ==
    [content_plan |-> content,
     logs |-> <<"Strategist: Content plan created.">>,
     node_details |-> <<[node |-> NodeLabel("strategist")]>>]

\* A seo_writer_node that returns its text under linkedin_writer_node's key.
SeoUpdateWrongKey(content) ==
    [linkedin_post |-> content,
     logs |-> <<"SEO Writer: Blog post drafted.">>,
     node_details |-> <<[node |-> NodeLabel("seo_writer")]>>]

SeoUpdate(content) ==
    [blog_post |-> content,
     logs |-> <<"SEO Writer: Blog post drafted.">>,
     node_details |-> <<[node |-> NodeLabel("seo_writer")]>>]

LinkedinUpdate(content) ==
    [linkedin_post |-> content,
     logs |-> <<"LinkedIn Writer: Post drafted.">>,
     node_details |-> <<[node |-> NodeLabel("linkedin_writer")]>>]

LlmUpdate(n, content) ==
    CASE n = "strategist" -> StrategistUpdate(content)
      [] n = "seo_writer" -> SeoUpdate(content)
      [] n = "linkedin_writer" -> LinkedinUpdate(content)

ImageSuccessUpdate(description, url) ==
    [image_prompt |-> description,
     image_url |-> url,
     logs |-> <<"Designer: Image generated successfully.">>,
     node_details |-> <<[node |-> NodeLabel("designer")]>>]

\* An except branch that substitutes no placeholder and logs no reason.
ImageFailureUpdateBare(description, reason) ==
    [image_prompt |-> description,
     image_url |-> "",
     logs |-> <<"Designer: Image generation failed">>,
     node_details |-> <<[node |-> NodeLabel("designer")]>>]

\* The dict of the except branch of image_gen_node.
ImageFailureUpdate(description, reason) ==
    [image_prompt |-> description,
     image_url |-> PlaceholderUrl,
     logs |-> <<"Designer: Image generation failed: " \o reason>>,
     node_details |-> <<[node |-> NodeLabel("designer")]>>]

\* -------------------------------------------------------- pipeline actions
\* The aggregator variables of a pipeline run are not looked at: research_node
\* runs aggregate_search as one call.
AggParked ==
    /\ sources = [isNone |-> FALSE, list |-> ResearchSources]
    /\ agg_pc = "start"
    /\ agg_i = 1
    /\ eff_sources = <<>>
    /\ all_results = <<>>
    /\ unique_results = <<>>
    /\ responses = [p \in Providers |-> NotCalled]
    /\ returned = [p \in Providers |-> <<>>]

InitGraph ==
    /\ AggParked
    /\ HttpParked
    /\ \E q \in Requests, key \in BOOLEAN : GraphStart(q, key)

\* state['logs'].append(entry): the list the node is handed is the list the
\* logs channel holds, so the entry lands in the channel.
AppendLog(st, entry) == [st EXCEPT !.logs = Append(@, entry)]

\* The first lines of every node, up to its first external call: read the
\* state, append the start entry to state['logs'].
NodeStart(n) ==
    /\ n \in active
    /\ node_pc[n] = "idle"
    /\ node_pc' = [node_pc EXCEPT ![n] = "started"]
    /\ state' = AppendLog(state, StartLog(n, state.request))
    /\ contributed' = [contributed EXCEPT ![n] = @ + 1]
    /\ UNCHANGED <<writes, active, run, llm_calls, img_calls, openai_key,
                   image_prompt, img_outcome>>
    /\ UNCHANGED vars_agg
    /\ UNCHANGED vars_http

\* research_node from the aggregate_search call to its return. An exception
\* leaving aggregate_search would leave the node and app.invoke.
ResearcherSearch ==
    /\ node_pc["researcher"] = "started"
    /\ \E resp \in ResearchResponses :
          LET r == aggregate_search(ResearchSources, resp)
          IN IF r.exc
             THEN /\ node_pc' = [node_pc EXCEPT !["researcher"] = "failed"]
                  /\ run' = "raised"
                  /\ UNCHANGED <<writes, contributed>>
             ELSE /\ node_pc' = [node_pc EXCEPT !["researcher"] = "returned"]
                  /\ writes' = [writes EXCEPT !["researcher"] =
                                   ResearchUpdate(state.request, r.val)]
                  /\ contributed' = [contributed EXCEPT !["researcher"] = @ + 1]
                  /\ UNCHANGED run
    /\ UNCHANGED <<state, active, llm_calls, img_calls, openai_key, image_prompt,
                   img_outcome>>
    /\ UNCHANGED vars_agg
    /\ UNCHANGED vars_http

\* research_node raising outside the try blocks of the provider searches
\* (the researcher forced to fail): the exception leaves app.invoke.
ResearcherRaise ==
    /\ node_pc["researcher"] = "started"
    /\ node_pc' = [node_pc EXCEPT !["researcher"] = "failed"]
    /\ run' = "raised"
    /\ UNCHANGED <<state, writes, active, llm_calls, img_calls, openai_key,
                   image_prompt, img_outcome, contributed>>
    /\ UNCHANGED vars_agg
    /\ UNCHANGED vars_http

\* strategist_node, seo_writer_node, linkedin_writer_node: llm.invoke returns
\* and the node returns its dict.
LlmInvokeReturn(n) ==
    /\ n \in {"strategist", "seo_writer", "linkedin_writer"}
    /\ node_pc[n] = "started"
    /\ llm_calls' = [llm_calls EXCEPT ![n] = @ + 1]
    /\ node_pc' = [node_pc EXCEPT ![n] = "returned"]
    /\ writes' = [writes EXCEPT ![n] = LlmUpdate(n, Content(n))]
    /\ contributed' = [contributed EXCEPT ![n] = @ + 1]
    /\ UNCHANGED <<state, active, run, img_calls, openai_key, image_prompt,
                   img_outcome>>
    /\ UNCHANGED vars_agg
    /\ UNCHANGED vars_http

\* llm.invoke raises: no node has a try around it, so the exception leaves
\* the node and app.invoke.
LlmInvokeRaise(n) ==
    /\ n \in LlmNodes
    /\ node_pc[n] = "started"
    /\ llm_calls' = [llm_calls EXCEPT ![n] = @ + 1]
    /\ node_pc' = [node_pc EXCEPT ![n] = "failed"]
    /\ run' = "raised"
    /\ UNCHANGED <<state, writes, active, img_calls, openai_key, image_prompt,
                   img_outcome, contributed>>
    /\ UNCHANGED vars_agg
    /\ UNCHANGED vars_http

\* image_gen_node lines 201-205: llm.invoke returns the description, which
\* is appended to state['logs'].
DesignerPrompt ==
    /\ node_pc["designer"] = "started"
    /\ llm_calls' = [llm_calls EXCEPT !["designer"] = @ + 1]
    /\ image_prompt' = Content("designer")
    /\ state' = AppendLog(state, PromptLog(Content("designer")))
    /\ contributed' = [contributed EXCEPT !["designer"] = @ + 1]
    /\ node_pc' = [node_pc EXCEPT !["designer"] = "prompted"]
    /\ UNCHANGED <<writes, active, run, img_calls, openai_key, img_outcome>>
    /\ UNCHANGED vars_agg
    /\ UNCHANGED vars_http

\* image_gen_node lines 208-211 and 235-246: no OPENAI_API_KEY, the
\* ValueError is caught.
DesignerKeyMissing ==
    /\ node_pc["designer"] = "prompted"
    /\ ~ openai_key
    /\ img_outcome' = "nokey"
    /\ writes' = [writes EXCEPT !["designer"] =
                     ImageFailureUpdate(image_prompt, KeyMissingReason)]
    /\ contributed' = [contributed EXCEPT !["designer"] =
                          @ + Len(writes'["designer"].logs)]
    /\ node_pc' = [node_pc EXCEPT !["designer"] = "returned"]
    /\ UNCHANGED <<state, active, run, llm_calls, img_calls, openai_key,
                   image_prompt>>
    /\ UNCHANGED vars_agg
    /\ UNCHANGED vars_http

\* image_gen_node lines 213-234: the image is generated.
DesignerImageOk ==
    /\ node_pc["designer"] = "prompted"
    /\ openai_key
    /\ img_calls' = img_calls + 1
    /\ img_outcome' = "ok"
    /\ writes' = [writes EXCEPT !["designer"] =
                     ImageSuccessUpdate(image_prompt, GeneratedImageUrl)]
    /\ contributed' = [contributed EXCEPT !["designer"] = @ + 1]
    /\ node_pc' = [node_pc EXCEPT !["designer"] = "returned"]
    /\ UNCHANGED <<state, active, run, llm_calls, openai_key, image_prompt>>
    /\ UNCHANGED vars_agg
    /\ UNCHANGED vars_http

\* image_gen_node lines 213-222 and 235-246: the image call raises (or its
\* answer has no data[0]); the exception is caught.
DesignerImageRaise ==
    /\ node_pc["designer"] = "prompted"
    /\ openai_key
    /\ img_calls' = img_calls + 1
    /\ img_outcome' = "raised"
    /\ writes' = [writes EXCEPT !["designer"] =
                     ImageFailureUpdate(image_prompt, ApiErrorReason)]
    /\ contributed' = [contributed EXCEPT !["designer"] =
                          @ + Len(writes'["designer"].logs)]
    /\ node_pc' = [node_pc EXCEPT !["designer"] = "returned"]
    /\ UNCHANGED <<state, active, run, llm_calls, openai_key, image_prompt>>
    /\ UNCHANGED vars_agg
    /\ UNCHANGED vars_http

Orders(S) ==
    {f \in [1..Cardinality(S) -> S] : \A i, j \in 1..Cardinality(S) : i # j => f[i] # f[j]}

\* The compiled graph ends a step: every node of the step has returned, their
\* dicts are merged into the state, and the nodes their edges lead to form
\* the next step, each run from its first line; with only END left app.invoke
\* returns the state.
StepCommit ==
    /\ run = "running"
    /\ active # {}
    /\ \A n \in active : node_pc[n] = "returned"
    /\ \E order \in Orders(active) :
          state' = ApplyWrites(state, [i \in 1..Len(order) |-> writes[order[i]]], 1)
    /\ node_pc' = [n \in Nodes |-> IF n \in Successors(active) THEN "idle"
                                   ELSE IF n \in active THEN "completed"
                                   ELSE node_pc[n]]
    /\ writes' = [n \in Nodes |-> IF n \in active THEN <<>> ELSE writes[n]]
    /\ active' = Successors(active)
    /\ run' = IF Successors(active) = {} THEN "done" ELSE "running"
    /\ UNCHANGED <<llm_calls, img_calls, openai_key, image_prompt, img_outcome,
                   contributed>>
    /\ UNCHANGED vars_agg
    /\ UNCHANGED vars_http

NextGraph ==
    \/ \E n \in Nodes : NodeStart(n)
    \/ ResearcherSearch
    \/ ResearcherRaise
    \/ \E n \in Nodes : LlmInvokeReturn(n)
    \/ \E n \in Nodes : LlmInvokeRaise(n)
    \/ DesignerPrompt
    \/ DesignerKeyMissing
    \/ DesignerImageOk
    \/ DesignerImageRaise
    \/ StepCommit

SpecGraph == InitGraph /\ [][NextGraph]_vars

\* -------------------------------------------------- pipeline: the claims
Begun(n) == node_pc[n] # "idle"

\* C4: a step starts only after all of its declared dependencies have
\* completed: strategist never before researcher has completed, and none of
\* seo_writer, linkedin_writer, designer before strategist has completed.
C4_StartsAfterDependencies ==
    /\ Begun("strategist") => node_pc["researcher"] = "completed"
    /\ \A t \in TerminalNodes :
          Begun(t) => /\ node_pc["strategist"] = "completed"
                      /\ node_pc["researcher"] = "completed"

\* The terminal steps are not ordered among themselves: designer has
\* returned while seo_writer has not begun and linkedin_writer is running.
C4_Witness ==
    /\ node_pc["designer"] = "returned"
    /\ node_pc["seo_writer"] = "idle"
    /\ node_pc["linkedin_writer"] = "started"

\* A terminal branch failed: its llm.invoke raised, or (designer) the image
\* capability failed.
BranchFailed(t) ==
    \/ node_pc[t] = "failed"
    \/ t = "designer" /\ img_outcome \in {"nokey", "raised"}

BranchOver(t) == node_pc[t] \in {"returned", "completed", "failed"}

\* C5: for a non-empty request, when researcher and strategist succeed and exactly one of the three
\* terminal branches fails, the run still ends with a final state in which
\* blog_post, linkedin_post, image_prompt and image_url are all present, the
\* other two branches holding their normal output.
C5_ArtifactsDespiteOneFailedBranch ==
    ( /\ state.request # ""
      /\ node_pc["researcher"] = "completed"
      /\ node_pc["strategist"] = "completed"
      /\ \A t \in TerminalNodes : BranchOver(t)
      /\ Cardinality({t \in TerminalNodes : BranchFailed(t)}) = 1
      /\ run # "running" )
    => /\ run = "done"
       /\ {"blog_post", "linkedin_post", "image_prompt", "image_url"}
              \subseteq DOMAIN state
       /\ ~ BranchFailed("seo_writer") => state.blog_post = Content("seo_writer")
       /\ ~ BranchFailed("linkedin_writer") =>
              state.linkedin_post = Content("linkedin_writer")
       /\ ~ BranchFailed("designer") => state.image_url = GeneratedImageUrl

\* C6: a step whose dependency has failed never executes: with researcher
\* failed, strategist and the three terminal steps have made no generation
\* call; with strategist failed, no terminal step has made one.
C6_NoCallsBelowFailedStep ==
    /\ node_pc["researcher"] = "failed" =>
          /\ \A n \in LlmNodes : llm_calls[n] = 0 /\ ~ Begun(n)
          /\ img_calls = 0
    /\ node_pc["strategist"] = "failed" =>
          /\ \A t \in TerminalNodes : llm_calls[t] = 0 /\ ~ Begun(t)
          /\ img_calls = 0

\* strategist's llm.invoke was called and raised.
C6_Witness ==
    /\ node_pc["strategist"] = "failed"
    /\ llm_calls["strategist"] = 1
    /\ run = "raised"

RECURSIVE SumContributed(_)
SumContributed(S) ==
    IF S = {} THEN 0
    ELSE LET n == CHOOSE x \in S : TRUE
         IN contributed[n] + SumContributed(S \ {n})

LogEntries == {state.logs[i] : i \in 1..Len(state.logs)}

\* C7: after a run in which all five steps complete, the final logs list is
\* as long as the entries the steps contributed (returned in their dicts or
\* appended to state['logs']), whatever the interleaving of the three
\* terminal branches, and every start entry and returned entry is in it.
C7_NoLogEntryLost ==
    run = "done" =>
        /\ Len(state.logs) = SumContributed(Nodes)
        /\ \A n \in Nodes : contributed[n] = IF n = "designer" THEN 3 ELSE 2
        /\ \A n \in Nodes : StartLog(n, state.request) \in LogEntries
        /\ PromptLog(Content("designer")) \in LogEntries
        /\ "Researcher: Found data on '" \o state.request \o "'." \in LogEntries
        /\ "Strategist: Content plan created." \in LogEntries
        /\ "SEO Writer: Blog post drafted." \in LogEntries
        /\ "LinkedIn Writer: Post drafted." \in LogEntries
        /\ Cardinality(LogEntries) = Len(state.logs)

\* All five steps completed, the image was generated, and the branches
\* interleaved: seo_writer began after designer had logged its prompt.
C7_Witness ==
    /\ run = "done"
    /\ img_outcome = "ok"
    /\ \E i, j \in 1..Len(state.logs) :
          /\ i < j
          /\ state.logs[i] = PromptLog(Content("designer"))
          /\ state.logs[j] = StartLog("seo_writer", state.request)

ImageFailureReason ==
    IF img_outcome = "nokey" THEN KeyMissingReason ELSE ApiErrorReason

\* C8: when the image capability fails after the description was generated
\* (the call raises, or OPENAI_API_KEY is missing), designer does not fail:
\* it returns image_prompt with the description, image_url with the
\* placeholder and a log entry that holds the failure reason, and these are
\* what the final state holds.
C8_ImageFailureDegrades ==
    img_outcome \in {"nokey", "raised"} =>
        /\ node_pc["designer"] \in {"returned", "completed"}
        /\ node_pc["designer"] = "returned" =>
              /\ writes["designer"].image_prompt = Content("designer")
              /\ writes["designer"].image_url = PlaceholderUrl
              /\ writes["designer"].logs =
                     <<"Designer: Image generation failed: " \o ImageFailureReason>>
        /\ run = "done" =>
              /\ state.image_prompt = Content("designer")
              /\ state.image_url = PlaceholderUrl
              /\ ("Designer: Image generation failed: " \o ImageFailureReason)
                     \in LogEntries

\* The image call raised and the run ended with a final state.
C8_Witness ==
    /\ run = "done"
    /\ img_outcome = "raised"
    /\ img_calls = 1

\* =========================================================================
\* The HTTP boundary of backend/main.py
\* =========================================================================
\* HTTPException(status_code=500, ...)
HttpInternalError == 500

\* The status of a handler that returns normally.
HttpOk == 200

\* The names backend/agent.py defines at module level.
AgentAttributes ==
    {"os", "time", "load_dotenv", "genai", "Console", "Panel", "console",
     "log_step", "api_key", "model", "generate_response"}

\* The query strings of the model; QueryRequest takes any string.
HttpQueries == {"", "ai trends", "llm agents"}

\* str(e) of the AttributeError of line 45.
MissingAttributeDetail ==
    "module 'backend.agent' has no attribute 'run_multi_agent_system'"

\* A request reaches the server; query_agent logs the query (line 38).
HttpReceiveQuery ==
    /\ http_pc \in {"idle", "responded"}
    /\ Len(served) < MaxRequests
    /\ \E q \in HttpQueries : http_query' = q
    /\ http_path' = "/query"
    /\ http_pc' = "received"
    /\ http_status' = 0
    /\ http_detail' = ""
    /\ graph_invoked' = FALSE
    /\ UNCHANGED served
    /\ UNCHANGED <<vars_agg, vars_graph>>

\* read_root: GET / answers with the running message.
HttpReadRoot ==
    /\ http_pc \in {"idle", "responded"}
    /\ Len(served) < MaxRequests
    /\ http_path' = "/"
    /\ http_query' = ""
    /\ http_pc' = "responded"
    /\ http_status' = HttpOk
    /\ http_detail' = ""
    /\ graph_invoked' = FALSE
    /\ served' = Append(served, [path |-> "/", query |-> "", status |-> HttpOk])
    /\ UNCHANGED <<vars_agg, vars_graph>>

\* query_agent lines 40-45: inside the try, agent.run_multi_agent_system is
\* looked up on the agent module. The module does not define it, so the
\* lookup raises AttributeError before anything is called.
HttpDelegate ==
    /\ http_pc = "received"
    /\ IF "run_multi_agent_system" \in AgentAttributes
       THEN /\ graph_invoked' = TRUE
            /\ http_pc' = "invoked"
            /\ UNCHANGED http_detail
       ELSE /\ graph_invoked' = FALSE
            /\ http_pc' = "except"
            /\ http_detail' = MissingAttributeDetail
    /\ UNCHANGED <<http_path, http_query, http_status, served>>
    /\ UNCHANGED <<vars_agg, vars_graph>>

\* query_agent lines 53-56: the except clause answers with HTTP 500 and the
\* message of the exception.
HttpExcept ==
    /\ http_pc = "except"
    /\ http_status' = HttpInternalError
    /\ http_pc' = "responded"
    /\ served' = Append(served, [path |-> http_path, query |-> http_query,
                                 status |-> HttpInternalError])
    /\ UNCHANGED <<http_path, http_query, http_detail, graph_invoked>>
    /\ UNCHANGED <<vars_agg, vars_graph>>

InitHttp ==
    /\ HttpParked
    /\ AggParked
    /\ GraphStart("", FALSE)

NextHttp == HttpReceiveQuery \/ HttpReadRoot \/ HttpDelegate \/ HttpExcept

SpecHttp == InitHttp /\ [][NextHttp]_vars

\* C11: a POST /query request invokes the task graph; whenever the graph
\* finishes running the handler answers with success and the final state's
\* fields, and only an error of the graph invocation yields the HTTP 500.
C11_QueryInvokesGraph ==
    (http_pc = "responded" /\ http_path = "/query") =>
        /\ graph_invoked
        /\ http_status = HttpInternalError => run = "raised"
        /\ run = "done" => http_status = HttpOk

\* ------------------------------------------- pipeline: the later claims
\* The step each scalar field of AgentState is claimed to belong to.
ClaimedWriter(k) ==
    CASE k = "research_data" -> "researcher"
      [] k = "content_plan" -> "strategist"
      [] k = "blog_post" -> "seo_writer"
      [] k = "linkedin_post" -> "linkedin_writer"
      [] k \in {"image_prompt", "image_url"} -> "designer"
      [] OTHER -> "nobody"

WrittenKeys(n) == DOMAIN writes[n]

\* C12: every scalar field other than request is written by exactly one
\* step (research_data by researcher, content_plan by strategist, blog_post
\* by seo_writer, linkedin_post by linkedin_writer, image_prompt and
\* image_url by designer), so no two steps of one graph step write the same
\* scalar field; logs and node_details are the only fields more than one
\* step writes.
C12_SingleWriterPerScalarField ==
    /\ \A n \in Nodes : \A k \in WrittenKeys(n) \ ReducerKeys :
          ClaimedWriter(k) = n
    /\ \A n, m \in Nodes :
          n # m => (WrittenKeys(n) \cap WrittenKeys(m)) \subseteq ReducerKeys
    /\ \A k \in (DOMAIN state) \ (ReducerKeys \cup {"request"}) :
          node_pc[ClaimedWriter(k)] = "completed"
    /\ \A n \in Nodes :
          node_pc[n] = "returned" => ReducerKeys \subseteq WrittenKeys(n)

\* The three terminal steps have all returned and none is merged yet: three
\* dicts wait side by side, each with its own scalar field and with logs.
C12_Witness ==
    /\ \A t \in TerminalNodes : node_pc[t] = "returned"
    /\ "blog_post" \in WrittenKeys("seo_writer")
    /\ "linkedin_post" \in WrittenKeys("linkedin_writer")
    /\ {"image_prompt", "image_url"} \subseteq WrittenKeys("designer")
    /\ \A t \in TerminalNodes : "logs" \in WrittenKeys(t)

\* ------------------------------------------ aggregator: the later claims
RECURSIVE IsSubsequenceFrom(_, _, _, _)
IsSubsequenceFrom(u, i, a, j) ==
    IF i > Len(u) THEN TRUE
    ELSE IF j > Len(a) THEN FALSE
    ELSE IF u[i] = a[j] THEN IsSubsequenceFrom(u, i + 1, a, j + 1)
    ELSE IsSubsequenceFrom(u, i, a, j + 1)

\* C13: the list aggregate_search returns is an order-preserving
\* subsequence of the concatenated provider results: surviving records keep
\* their relative order, nothing is re-sorted, added or modified.
C13_OutputIsStableSubsequence ==
    agg_pc = "done" =>
        /\ IsSubsequenceFrom(unique_results, 1, all_results, 1)
        /\ \A k, l \in 1..Len(unique_results) :
              k < l => FirstIndexWithUrl(all_results, unique_results[k].url)
                           < FirstIndexWithUrl(all_results, unique_results[l].url)
        /\ \A k \in 1..Len(unique_results) :
              \E p \in Providers : \E i \in 1..Len(returned[p]) :
                  unique_results[k] = returned[p][i]

\* At least two records survive, at least one was dropped, and the call has
\* returned.
C13_Witness ==
    /\ agg_pc = "done"
    /\ Len(unique_results) >= 2
    /\ Len(unique_results) < Len(all_results)

\* =========================================================================
\* Snippets: aggregate_search on records that carry their snippet
\* =========================================================================
\* The [:300] of search_reddit, search_arxiv and search_github.
SnippetBudget == 300

\* A text is modelled by its length. The lengths a provider may hand back in
\* its body / description / selftext / summary field.
SnippetLengths == {0, SnippetBudget, SnippetBudget + 1}

\* text[:300]
Truncate(len) == IF len > SnippetBudget THEN SnippetBudget ELSE len

\* The "snippet" entry of the record each provider's code builds:
\* duckduckgo result.get("body", ""), brave result.get("description", ""),
\* wikipedia descriptions[i]; reddit, arxiv and github slice with [:300].
NormalizeSnippet(p, len) ==
    IF p \in {"reddit", "arxiv", "github"} THEN Truncate(len) ELSE len

SnippetHits(p) == [loc : RawHits(p), text : SnippetLengths]

SnippetOutcomes(p) ==
    {[kind |-> "raise", hits |-> <<>>], [kind |-> "malformed", hits |-> <<>>]}
    \cup {[kind |-> "ok", hits |-> h] : h \in SeqsUpTo(SnippetHits(p), MaxSnippetHits)}

\* The records of search_<p>, url, source and rank as before, with the snippet.
NormalizeWithSnippet(p, hits) ==
    LET base == Normalize(p, [i \in 1..Len(hits) |-> hits[i].loc])
    IN [i \in 1..Len(hits) |->
           [url |-> base[i].url, source |-> base[i].source, rank |-> base[i].rank,
            snippet |-> NormalizeSnippet(p, hits[i].text)]]

SearchProviderWithSnippets(p, o) ==
    ExceptReturnEmpty(
        IF p = "brave" \/ o.kind # "ok"
        THEN [exc |-> TRUE, val |-> <<>>]
        ELSE [exc |-> FALSE, val |-> NormalizeWithSnippet(p, o.hits)])

InitSnippets ==
    /\ sources \in {[isNone |-> FALSE, list |-> l] :
                       l \in SeqsUpTo(Providers, MaxSnippetSources)}
    /\ agg_pc = "start"
    /\ agg_i = 1
    /\ eff_sources = <<>>
    /\ all_results = <<>>
    /\ unique_results = <<>>
    /\ responses = [p \in Providers |-> NotCalled]
    /\ returned = [p \in Providers |-> <<>>]
    /\ GraphStart("", FALSE)
    /\ HttpParked

\* Lines 162-178, a block whose test is true, on records with snippets.
AggCallProviderWithSnippets ==
    /\ agg_pc = "call"
    /\ agg_i <= Len(CallOrder)
    /\ InSources(CallOrder[agg_i], eff_sources)
    /\ \E o \in SnippetOutcomes(CallOrder[agg_i]) :
          LET p == CallOrder[agg_i]
              r == SearchProviderWithSnippets(p, o)
          IN /\ responses' = [responses EXCEPT ![p] = o]
             /\ IF r.exc
                THEN /\ agg_pc' = "raised"
                     /\ UNCHANGED <<all_results, returned, agg_i>>
                ELSE /\ all_results' = all_results \o r.val
                     /\ returned' = [returned EXCEPT ![p] = r.val]
                     /\ agg_i' = agg_i + 1
                     /\ agg_pc' = IF agg_i = Len(CallOrder) THEN "dedup" ELSE "call"
    /\ UNCHANGED <<sources, eff_sources, unique_results>>
    /\ UNCHANGED vars_graph
    /\ UNCHANGED vars_http

NextSnippets ==
    AggEnter \/ AggCallProviderWithSnippets \/ AggSkipProvider \/ AggDedup

SpecSnippets == InitSnippets /\ [][NextSnippets]_vars

\* C14: every record aggregate_search returns, whichever provider produced
\* it, has a snippet of at most 300 characters.
C14_SnippetWithinBudget ==
    agg_pc = "done" =>
        \A k \in 1..Len(unique_results) : unique_results[k].snippet <= SnippetBudget

\* =========================================================================
\* Pipeline: termination when every external call returns
\* =========================================================================
\* The steps of app.invoke in which aggregate_search, llm.invoke and
\* client.images.generate all return.
NextGraphReturning ==
    \/ \E n \in Nodes : NodeStart(n)
    \/ ResearcherSearch
    \/ \E n \in Nodes : LlmInvokeReturn(n)
    \/ DesignerPrompt
    \/ DesignerKeyMissing
    \/ DesignerImageOk
    \/ StepCommit

\* app.invoke keeps running the pending nodes until none is left.
SpecGraphFair ==
    InitGraph /\ [][NextGraphReturning]_vars /\ WF_vars(NextGraphReturning)

\* How often node n ran its first lines: its start entries in the logs.
Executions(n) ==
    Cardinality({i \in 1..Len(state.logs) : state.logs[i] = StartLog(n, state.request)})

AllStepsOnce ==
    \A n \in Nodes : node_pc[n] = "completed" /\ Executions(n) = 1

\* C15: when every external call returns without raising, every invocation
\* of the compiled graph terminates, each of the five steps has then executed
\* exactly once, and a step that has completed never executes again.
C15_TerminatesEachStepOnce ==
    /\ <>(run = "done")
    /\ [](run = "done" => AllStepsOnce)
    /\ [][\A n \in Nodes : node_pc[n] = "completed" => node_pc'[n] = "completed"]_vars

\* The invocation has returned with the image generated, the three terminal
\* branches having run in one step.
C15_Witness ==
    /\ run = "done"
    /\ active = {}
    /\ AllStepsOnce
    /\ llm_calls = [n \in Nodes |-> IF n \in LlmNodes THEN 1 ELSE 0]
    /\ img_outcome = "ok"

====
